---- MODULE Spec2Model ----
(***************************************************************************)
(* A model of package log (src/log.go): the level registry, the printer    *)
(* factory, the gate and sink writer logPrint, and the process-wide        *)
(* configuration (logLevel, timeStampFormat, App, writer, writerMx).       *)
(*                                                                         *)
(* Text is modelled as a sequence of tokens (one-character strings for the *)
(* level names and the application name, opaque tokens for what the        *)
(* collaborators time.Format, runtime.Caller, color and spew return).      *)
(***************************************************************************)
EXTENDS Integers, Sequences, FiniteSets, TLC

\* ------------------------------------------------------------------ bounds
\* goroutines that may call into the package
NThreads == 2
\* operations (calls of exported functions) started in a sequential history
MaxOps == 2
\* operations started in a concurrent history
MaxConcOps == 2
\* operations started in a history of threshold changes
MaxLevelOps == 3

Threads == 1..NThreads
\* the goroutine of the sequential histories (the test's goroutine)
Main == 1

\* ------------------------------------------------------- the level registry
Off == 0
Fatal == 1
Error == 2
Check == 3
Warn == 4
Info == 5
Debug == 6
Trace == 7

Levels == {Off, Fatal, Error, Check, Warn, Info, Debug, Trace}

\* LvlStr: the uniform width strings that identify the Level of an entry;
\* a level that is no key of the map yields the empty string
LvlStr(lvl) ==
  CASE lvl = Off -> <<"o", "f", "f", " ", " ">>
    [] lvl = Fatal -> <<"f", "a", "t", "a", "l">>
    [] lvl = Error -> <<"e", "r", "r", "o", "r">>
    [] lvl = Warn -> <<"w", "a", "r", "n", " ">>
    [] lvl = Info -> <<"i", "n", "f", "o", " ">>
    [] lvl = Check -> <<"c", "h", "e", "c", "k">>
    [] lvl = Debug -> <<"d", "e", "b", "u", "g">>
    [] lvl = Trace -> <<"t", "r", "a", "c", "e">>
    [] OTHER -> <<>>

\* lvlStrs: the map from a name to its Level, as its set of key/value pairs
lvlStrs ==
  { <<<<"o", "f", "f">>, Off>>,
    <<<<"f", "a", "t", "a", "l">>, Fatal>>,
    <<<<"e", "r", "r", "o", "r">>, Error>>,
    <<<<"c", "h", "e", "c", "k">>, Check>>,
    <<<<"w", "a", "r", "n">>, Warn>>,
    <<<<"i", "n", "f", "o">>, Info>>,
    <<<<"d", "e", "b", "u", "g">>, Debug>>,
    <<<<"t", "r", "a", "c", "e">>, Trace>> }

\* unicode.IsSpace on the characters the model uses
IsSpace(c) == c \in {" ", "\n", "\t"}

RECURSIVE TrimLeft(_)
\* strings.TrimLeftFunc(s, unicode.IsSpace), the first half of TrimSpace
TrimLeft(s) ==
  IF s # <<>> /\ IsSpace(Head(s)) THEN TrimLeft(Tail(s)) ELSE s

RECURSIVE TrimRight(_)
\* strings.TrimRightFunc(s, unicode.IsSpace), the second half of TrimSpace
TrimRight(s) ==
  IF s # <<>> /\ IsSpace(s[Len(s)])
  THEN TrimRight(SubSeq(s, 1, Len(s) - 1))
  ELSE s

\* strings.TrimSpace: leading and trailing white space removed
TrimSpace(s) == TrimRight(TrimLeft(s))

\* strings.TrimSuffix(s, suffix): one occurrence of suffix removed from the end
TrimSuffix(s, suffix) ==
  IF Len(s) >= Len(suffix)
     /\ SubSeq(s, Len(s) - Len(suffix) + 1, Len(s)) = suffix
  THEN SubSeq(s, 1, Len(s) - Len(suffix))
  ELSE s

\* unicode.ToUpper on one character
UpperChar(c) ==
  CASE c = "a" -> "A" [] c = "e" -> "E" [] c = "g" -> "G" [] c = "i" -> "I"
    [] c = "n" -> "N" [] c = "p" -> "P" [] c = "s" -> "S" [] c = "t" -> "T"
    [] OTHER -> c

\* strings.ToUpper
ToUpper(s) == [i \in 1..Len(s) |-> UpperChar(s[i])]

\* GetLevelNameTrimless: GetLevelName without the TrimSpace
GetLevelNameTrimless(ll) == LvlStr(ll)

\* GetLevelName: the display name of a level, white space stripped
GetLevelName(ll) == TrimSpace(LvlStr(ll))

\* GetLevelByString: the level of a name, def when the name is no key
GetLevelByString(lvl, def) ==
  IF \E p \in lvlStrs : p[1] = lvl
  THEN (CHOOSE p \in lvlStrs : p[1] = lvl)[2]
  ELSE def

\* the 24 bit colour gLS binds to each level in LevelSpecs
LevelRGB(lvl) ==
  CASE lvl = Off -> "0;0;0"
    [] lvl = Fatal -> "255;0;0"
    [] lvl = Error -> "255;128;0"
    [] lvl = Check -> "255;255;0"
    [] lvl = Warn -> "128;255;0"
    [] lvl = Info -> "0;255;0"
    [] lvl = Debug -> "0;128;255"
    [] lvl = Trace -> "128;0;255"
    [] OTHER -> ""

\* gLS / LevelSpecs: the name and the colorizer of a level
gLS(lvl) == [Name |-> LvlStr(lvl), RGB |-> LevelRGB(lvl)]

\* LevelSpecs[level].Colorizer(text): color.Bit24(r, g, b, false).Sprintf,
\* the text between the colour's escape sequence and the reset sequence
Colorizer(lvl, text) ==
  <<"ESC[38;2;", gLS(lvl).RGB, "m">> \o text \o <<"ESC[0m">>

\* ------------------------------------------------------------------ values
\* an interface{} value: its dynamic type and its default text rendering
Str(text) == [type |-> "string", text |-> text]
Err(text) == [type |-> "error", text |-> text]
Obj(text) == [type |-> "struct", text |-> text]
Func(text) == [type |-> "func", text |-> text]
\* a closure func() string that panics instead of returning
FuncPanics == [type |-> "func_panics", text |-> <<>>]
\* a closure func() string that calls a line printer of the logger before it
\* returns text
FuncLogs(text) == [type |-> "func_logs", text |-> text]
\* a value whose String() method calls a line printer of the logger before
\* it returns text
StringerLogs(text) == [type |-> "stringer_logs", text |-> text]
Nil == [type |-> "nil", text |-> <<>>]

\* fmt.Sprint(v) of one operand: a string as it is, an error by Error(),
\* any other value by its %v rendering
Sprint(v) == v.text

RECURSIVE joinFrom(_, _, _)
\* the loop of joinStrings' closure from index i: every element rendered,
\* sep after every element but the last
joinFrom(sep, a, i) ==
  IF i > Len(a) THEN <<>>
  ELSE Sprint(a[i]) \o (IF i < Len(a) THEN sep ELSE <<>>)
       \o joinFrom(sep, a, i + 1)

RECURSIVE Sprintf(_, _)
\* fmt.Sprintf(format, a...) with the verb %s: each verb replaced by the next
\* operand's text, a verb without operand by %!s(MISSING), operands left
\* over reported as %!(EXTRA)
Sprintf(format, a) ==
  IF format = <<>>
  THEN (IF a = <<>> THEN <<>> ELSE <<"%!(EXTRA)">>)
  ELSE IF Head(format) = "%s"
       THEN (IF a = <<>>
             THEN <<"%!s(MISSING)">> \o Sprintf(Tail(format), a)
             ELSE Head(a) \o Sprintf(Tail(format), Tail(a)))
       ELSE <<Head(format)>> \o Sprintf(Tail(format), a)

RECURSIVE Sdump(_)
\* spew.Sdump(a...): one block per value, each ended by a newline
Sdump(a) ==
  IF a = <<>> THEN <<>>
  ELSE <<"(", Head(a).type, ")", " ">> \o Head(a).text \o <<"\n">>
       \o Sdump(Tail(a))

\* the message producers the printers hand to logPrint
NoFunc == [kind |-> "none", format |-> <<>>, a |-> <<>>, text |-> <<>>]
\* joinStrings(sep, a...): the closure over sep and a
joinStrings(sep, a) ==
  [kind |-> "joinStrings", format |-> sep, a |-> a, text |-> <<>>]

\* the producer fails: the closure given to C panics
Panics(f) == f.kind = "closure" /\ f.a[1].type = "func_panics"

\* the producer calls the logger: the closure given to C does, or the text
\* rendering (String()) of one of the values does
Logs(f) ==
  \/ f.kind = "closure" /\ f.a[1].type = "func_logs"
  \/ /\ f.kind \in {"joinStrings", "Sprintf", "Sdump"}
     /\ \E i \in 1..Len(f.a) : f.a[i].type = "stringer_logs"

\* printFunc(): the message text a producer returns when it is invoked
PrintFunc(f) ==
  CASE f.kind = "joinStrings" -> joinFrom(f.format, f.a, 1)
    [] f.kind = "Sprintf" ->
         Sprintf(f.format, [i \in 1..Len(f.a) |-> Sprint(f.a[i])])
    [] f.kind = "Sdump" -> f.text \o Sdump(f.a)
    [] f.kind = "closure" -> f.a[1].text
    [] OTHER -> <<>>

\* --------------------------------------------------------- printer factory
\* a printer primitive: the closure over the level it is bound to
_ln(l) == [prim |-> "Ln", level |-> l]
_f(level) == [prim |-> "F", level |-> level]
_s(level) == [prim |-> "S", level |-> level]
_c(level) == [prim |-> "C", level |-> level]
_chk(level) == [prim |-> "Chk", level |-> level]

\* getOnePrinter: the five primitives of one level
getOnePrinter(level) ==
  [Ln |-> _ln(level), F |-> _f(level), S |-> _s(level), C |-> _c(level),
   Chk |-> _chk(level)]

\* GetLogger with the Warn and Info bundles exchanged
GetLoggerSwapped ==
  [F |-> getOnePrinter(Fatal), E |-> getOnePrinter(Error),
   W |-> getOnePrinter(Info), I |-> getOnePrinter(Warn),
   D |-> getOnePrinter(Debug), T |-> getOnePrinter(Trace)]

\* GetLogger: the facade, one bundle per field F, E, W, I, D, T
GetLogger ==
  [F |-> getOnePrinter(Fatal), E |-> getOnePrinter(Error),
   W |-> getOnePrinter(Warn), I |-> getOnePrinter(Info),
   D |-> getOnePrinter(Debug), T |-> getOnePrinter(Trace)]

FacadeFields == {"F", "E", "W", "I", "D", "T"}
Prims == {"Ln", "F", "S", "C", "Chk"}

\* ---------------------------------------------------- location and time
\* a frame of a goroutine's stack: the function and the line it is at
Frame(fn, file, line) == [fn |-> fn, file |-> file, line |-> line]

\* the call sites of the calling code: a primitive called as a field of the
\* facade (log.T.Ln(...)), and through a stored function value
\* (fails = log.E.Chk, then fails(...))
DirectSite == "17"
StoredValueSite == "23"
\* the frame of the code that calls into the package
Caller(site) == Frame("main.caller", "main.go", site)

\* the frame of a primitive's closure, at the line where it calls logPrint
ClosureFrame(prim) ==
  CASE prim = "Ln" -> Frame("log._ln.func1", "log.go", "221")
    [] prim = "F" -> Frame("log._f.func1", "log.go", "208")
    [] prim = "S" -> Frame("log._s.func1", "log.go", "231")
    [] prim = "C" -> Frame("log._c.func1", "log.go", "188")
    [] prim = "Chk" -> Frame("log._chk.func1", "log.go", "194")
    [] OTHER -> Frame(prim, "log.go", "0")

\* the frame of the closure logPrint returns, at the line where it calls GetLoc
LogPrintFrame == Frame("log.logPrint.func1", "log.go", "281")
\* the frame of GetLoc, at its call of runtime.Caller
GetLocFrame == Frame("log.GetLoc", "log.go", "143")

\* the frames of the goroutine when logPrint calls GetLoc, innermost first,
\* for a primitive called as a field of the facade
CallStack(prim) ==
  << GetLocFrame, LogPrintFrame, ClosureFrame(prim), Caller(DirectSite) >>

\* GetLoc that counts one frame less
GetLocOneLess(skip, stack) ==
  IF skip <= Len(stack)
  THEN <<stack[skip].file, ":", stack[skip].line>>
  ELSE <<":", "0">>

\* GetLoc(skip): file:line of the frame skip frames above GetLoc; what
\* runtime.Caller returns beyond the stack is the empty file and line 0
GetLoc(skip, stack) ==
  IF skip + 1 <= Len(stack)
  THEN <<stack[skip + 1].file, ":", stack[skip + 1].line>>
  ELSE <<":", "0">>

\* the layouts a caller may set, by name
DefaultLayout == "2006-01-02T15:04:05.000000000Z07:00"
DateTimeLayout == "2006-01-02 15:04:05"
\* a Go string variable is a pointer word and a length word
StringHeader(layout) == [ptr |-> layout, len |-> layout]

\* getTimeText(tsf): time.Now().Format(tsf). A header whose words come from
\* two different strings (a torn read) formats to neither layout's text.
getTimeText(tsf) ==
  IF tsf.ptr # tsf.len THEN <<"torn-layout">>
  ELSE IF tsf.ptr = DefaultLayout
       THEN <<"2026-11-01T10:00:00.000000000Z">>
       ELSE <<"2026-11-01", " ", "10:00:00">>

\* formatString of logPrint
formatString == <<"%s", " ", "%s", " ", "%s", " ", "%s", " ", "%s">>

\* ------------------------------------------------------------------- state
VARIABLES
  logLevel,         \* the threshold (package variable logLevel)
  timeStampFormat,  \* the layout, a string header (package variable)
  App,              \* the application name (atomic.String)
  writerMx,         \* the mutex: 0 when free, else the goroutine holding it
  writer,           \* the sink: the chunks written to it, in order
  pc,               \* where each goroutine is
  call,             \* the call each goroutine is in
  printFunc,        \* the message producer handed to logPrint
  timeText,         \* logPrint's local timeText
  app,              \* logPrint's local app
  s,                \* logPrint's local s
  ret,              \* the value the call returns (is, l)
  obs,              \* history of the call in progress
  opsLeft,          \* bound: operations that may still be started
  nPassed,          \* history: entries that passed the gate
  lastSet,          \* history: argument of the last completed SetLogLevel
  lastStored,       \* history: the name the last App.Store stored
  lastAlone,        \* history: the last completed SetLogLevel overlapped none
  lv,               \* the level-name functions' inputs and results
  stack,            \* the frames of each goroutine, innermost first
  outer             \* the emits of each goroutine that wait for their producer

shared == <<logLevel, timeStampFormat, App, writerMx, writer>>
locals == <<printFunc, timeText, app, s, ret>>
hist == <<opsLeft, nPassed, lastSet, lastStored, lastAlone>>
vars == <<logLevel, timeStampFormat, App, writerMx, writer, pc, call,
          printFunc, timeText, app, s, ret, obs, opsLeft, nPassed, lastSet,
          lastStored, lastAlone, lv, stack, outer>>

NoCall == [op |-> "none", field |-> "", level |-> Off, format |-> <<>>,
           a |-> <<>>, site |-> ""]
\* T: the threshold the gate read; produced: invocations of the message
\* producer; early: message text built from the arguments before logPrint was
\* called; wrote: lines put into the sink; at: the sink's length when the call
\* began; fresh: no App.Store has happened since the call began; alone: no
\* other SetLogLevel call has been in progress since the call began
NoObs == [T |-> -1, produced |-> 0, early |-> 0, wrote |-> 0, at |-> 0,
          fresh |-> FALSE, alone |-> FALSE]
\* the zero values of the named results is and l
NoRet == [is |-> FALSE, l |-> 0]
NoLv == [phase |-> "off", ll |-> Off, def |-> Off, str |-> <<>>,
         name |-> <<>>, back |-> Off, other |-> Off]

\* a panic nobody recovers ends the process
Alive == \A t \in Threads : pc[t] # "panicked"
At(t, label) == pc[t] = label /\ Alive

\* the package variable logLevel's initial value
logLevelDefault == Info

\* the package variables with the layout a completed SetTimeStampFormat has
\* left, every goroutine outside
InitWith(layout) ==
  /\ logLevel = logLevelDefault
  /\ timeStampFormat = StringHeader(layout)
  /\ App = <<>>
  /\ writerMx = 0
  /\ writer = <<>>
  /\ pc = [t \in Threads |-> "idle"]
  /\ call = [t \in Threads |-> NoCall]
  /\ printFunc = [t \in Threads |-> NoFunc]
  /\ timeText = [t \in Threads |-> <<>>]
  /\ app = [t \in Threads |-> <<>>]
  /\ s = [t \in Threads |-> <<>>]
  /\ ret = [t \in Threads |-> NoRet]
  /\ obs = [t \in Threads |-> NoObs]
  /\ nPassed = 0
  /\ lastSet = -1
  /\ lastStored = App
  /\ lastAlone = FALSE
  /\ stack = [t \in Threads |-> <<>>]
  /\ outer = [t \in Threads |-> <<>>]

\* the package variables after initialisation
InitProgram == InitWith(DefaultLayout)

Init == InitProgram /\ opsLeft = MaxOps /\ lv = NoLv

\* the frames of the package's functions the call c has entered when its
\* goroutine is at label, innermost first
EntryFrames(c, label) ==
  CASE label = "lp_lock" -> <<LogPrintFrame, ClosureFrame(c.op)>>
    [] label = "chk_nil" -> <<Frame("log._chk.func1", "log.go", "193")>>
    [] label = "panicking" -> <<Frame("log._s.func1", "log.go", "227")>>
    [] label = "sl_lock" -> <<Frame("log.SetLogLevel", "log.go", "161")>>
    [] label = "gl_lock" -> <<Frame("log.GetLogLevel", "log.go", "167")>>
    [] label = "tf_first" ->
         <<Frame("log.SetTimeStampFormat", "log.go", "175")>>
    [] OTHER -> <<Frame(c.op, "", "0")>>

\* a goroutine enters an exported function with the call c; early counts the
\* message text the primitive's closure builds before it calls logPrint
EnterWith(t, c, f, label, early) ==
  /\ At(t, "idle")
  /\ opsLeft > 0
  /\ opsLeft' = opsLeft - 1
  /\ call' = [call EXCEPT ![t] = c]
  /\ printFunc' = [printFunc EXCEPT ![t] = f]
  /\ pc' = [pc EXCEPT ![t] = label]
  /\ obs' = [u \in Threads |->
               IF u = t
               THEN [NoObs EXCEPT
                       !.at = Len(writer), !.fresh = TRUE, !.early = early,
                       !.alone = /\ c.op = "SetLogLevel"
                                 /\ \A v \in Threads \ {t} :
                                      call[v].op # "SetLogLevel"]
               ELSE IF c.op = "SetLogLevel"
                    THEN [obs[u] EXCEPT !.alone = FALSE]
                    ELSE obs[u]]
  /\ ret' = [ret EXCEPT ![t] = NoRet]
  /\ stack' = [stack EXCEPT ![t] = EntryFrames(c, label) \o <<Caller(c.site)>>]
  /\ UNCHANGED <<shared, timeText, app, s, nPassed, lastSet, lastStored,
                 lastAlone, lv, outer>>

Enter(t, c, f, label) == EnterWith(t, c, f, label, 0)

PrinterCall(field, prim, format, a) ==
  [op |-> prim, field |-> field, level |-> GetLogger[field][prim].level,
   format |-> format, a |-> a, site |-> DirectSite]

\* Ln that joins its values before it calls logPrint
CallLnEager(t, fields, args) ==
  \E field \in fields, a \in args :
    EnterWith(t, PrinterCall(field, "Ln", <<>>, a), joinStrings(<<" ">>, a),
              "lp_lock", 1)

\* _ln: Ln(a...) hands joinStrings(" ", a...) to logPrint
CallLn(t, fields, args) ==
  \E field \in fields, a \in args :
    Enter(t, PrinterCall(field, "Ln", <<>>, a), joinStrings(<<" ">>, a),
          "lp_lock")

\* _f: F(format, a...) hands the closure around fmt.Sprintf to logPrint
CallF(t, fields, formats, args) ==
  \E field \in fields, format \in formats, a \in args :
    Enter(t, PrinterCall(field, "F", format, a),
          [kind |-> "Sprintf", format |-> format, a |-> a, text |-> <<>>],
          "lp_lock")

\* _s: S(a...) takes a[0] as the header when it is a string (a[0] of an
\* empty a panics), trims it and appends the newline at once, then hands the
\* closure around spew.Sdump of the rest to logPrint
CallS(t, fields, args) ==
  \E field \in fields, a \in args :
    IF a = <<>>
    THEN Enter(t, PrinterCall(field, "S", <<>>, a), NoFunc, "panicking")
    ELSE IF a[1].type = "string"
         THEN EnterWith(t, PrinterCall(field, "S", <<>>, a),
                        [kind |-> "Sdump", format |-> <<>>, a |-> Tail(a),
                         text |-> TrimSpace(a[1].text) \o <<"\n">>],
                        "lp_lock", 1)
         ELSE Enter(t, PrinterCall(field, "S", <<>>, a),
                    [kind |-> "Sdump", format |-> <<>>, a |-> a,
                     text |-> <<"s", "p", "e", "w", ":", "\n">>],
                    "lp_lock")

\* _c: C(closure) hands the closure itself to logPrint
CallC(t, fields, closures) ==
  \E field \in fields, closure \in closures :
    Enter(t, PrinterCall(field, "C", <<>>, <<closure>>),
          [kind |-> "closure", format |-> <<>>, a |-> <<closure>>,
           text |-> <<>>],
          "lp_lock")

\* _chk: Chk(e) goes to logPrint with joinStrings(" ", "CHECK:", e) when e is
\* not nil, and returns at once otherwise
CallChkAt(t, fields, errs, site) ==
  \E field \in fields, e \in errs :
    IF e # Nil
    THEN Enter(t, [PrinterCall(field, "Chk", <<>>, <<e>>) EXCEPT !.site = site],
               joinStrings(<<" ">>, <<Str(<<"CHECK:">>), e>>), "lp_lock")
    ELSE Enter(t, [PrinterCall(field, "Chk", <<>>, <<e>>) EXCEPT !.site = site],
               NoFunc, "chk_nil")

CallChk(t, fields, errs) == CallChkAt(t, fields, errs, DirectSite)

\* fails = log.E.Chk, then fails(e): the same closure, called through the
\* stored function value
CallChkStored(t, fields, errs) == CallChkAt(t, fields, errs, StoredValueSite)

\* Chk that reports an error also when e is nil
ChkNilTrue(t) ==
  /\ At(t, "chk_nil")
  /\ ret' = [ret EXCEPT ![t].is = TRUE]
  /\ pc' = [pc EXCEPT ![t] = "ret"]
  /\ UNCHANGED <<shared, call, printFunc, timeText, app, s, obs, hist, lv, stack, outer>>

\* Chk's return when e is nil: is keeps its zero value
ChkNil(t) ==
  /\ At(t, "chk_nil")
  /\ ret' = [ret EXCEPT ![t].is = FALSE]
  /\ pc' = [pc EXCEPT ![t] = "ret"]
  /\ UNCHANGED <<shared, call, printFunc, timeText, app, s, obs, hist, lv, stack, outer>>

\* ------------------------------------------------------------------ mutex
\* writerMx.Lock(): blocks until the mutex is free, then holds it
MutexLock(t) == writerMx = 0 /\ writerMx' = t
\* writerMx.Unlock()
MutexUnlock(t) == writerMx' = 0

\* a Lock that does not wait for the mutex to be free
LogPrintNoLock(t) ==
  /\ At(t, "lp_lock")
  /\ writerMx' = t
  /\ pc' = [pc EXCEPT ![t] = "lp_gate"]
  /\ UNCHANGED <<logLevel, timeStampFormat, App, writer, call, locals, obs,
                 hist, lv, stack, outer>>

\* ---------------------------------------------------------------- logPrint
\* logPrint that tests the level before it takes the mutex
LogPrintGateBeforeLock(t) ==
  /\ At(t, "lp_lock")
  /\ IF call[t].level > logLevel
     THEN /\ pc' = [pc EXCEPT ![t] = "ret"]
          /\ obs' = [obs EXCEPT ![t].T = logLevel]
          /\ UNCHANGED writerMx
     ELSE /\ MutexLock(t)
          /\ pc' = [pc EXCEPT ![t] = "lp_gate"]
          /\ UNCHANGED obs
  /\ UNCHANGED <<logLevel, timeStampFormat, App, writer, call, locals, hist,
                 lv, stack, outer>>

\* writerMx.Lock() of logPrint's closure
LogPrintLock(t) ==
  /\ At(t, "lp_lock")
  /\ MutexLock(t)
  /\ pc' = [pc EXCEPT ![t] = "lp_gate"]
  /\ UNCHANGED <<logLevel, timeStampFormat, App, writer, call, locals, obs,
                 hist, lv, stack, outer>>

\* the gate with >= in place of >
LogPrintGateStrict(t) ==
  /\ At(t, "lp_gate")
  /\ obs' = [obs EXCEPT ![t].T = logLevel]
  /\ IF call[t].level >= logLevel
     THEN pc' = [pc EXCEPT ![t] = "lp_unlock"] /\ UNCHANGED nPassed
     ELSE pc' = [pc EXCEPT ![t] = "lp_time"] /\ nPassed' = nPassed + 1
  /\ UNCHANGED <<shared, call, locals, opsLeft, lastSet, lastStored, lastAlone, lv, stack, outer>>

\* the gate after the message has been produced
LogPrintGateEager(t) ==
  /\ At(t, "lp_gate")
  /\ obs' = [obs EXCEPT ![t].T = logLevel,
                        ![t].produced = obs[t].produced + 1]
  /\ IF call[t].level > logLevel
     THEN pc' = [pc EXCEPT ![t] = "lp_unlock"] /\ UNCHANGED nPassed
     ELSE pc' = [pc EXCEPT ![t] = "lp_time"] /\ nPassed' = nPassed + 1
  /\ UNCHANGED <<shared, call, locals, opsLeft, lastSet, lastStored, lastAlone, lv, stack, outer>>

\* the gate: if level > logLevel { return }
LogPrintGate(t) ==
  /\ At(t, "lp_gate")
  /\ obs' = [obs EXCEPT ![t].T = logLevel]
  /\ IF call[t].level > logLevel
     THEN pc' = [pc EXCEPT ![t] = "lp_unlock"] /\ UNCHANGED nPassed
     ELSE pc' = [pc EXCEPT ![t] = "lp_time"] /\ nPassed' = nPassed + 1
  /\ UNCHANGED <<shared, call, locals, opsLeft, lastSet, lastStored, lastAlone, lv, stack, outer>>

\* timeText := getTimeText(timeStampFormat)
LogPrintTime(t) ==
  /\ At(t, "lp_time")
  /\ timeText' = [timeText EXCEPT ![t] = getTimeText(timeStampFormat)]
  /\ pc' = [pc EXCEPT ![t] = "lp_app"]
  /\ UNCHANGED <<shared, call, printFunc, app, s, ret, obs, hist, lv, stack, outer>>

\* if len(App.Load()) > 0: the first load of the name
LogPrintAppLen(t) ==
  /\ At(t, "lp_app")
  /\ app' = [app EXCEPT ![t] = <<>>]
  /\ pc' = [pc EXCEPT ![t] = IF Len(App) > 0 THEN "lp_app2" ELSE "lp_print"]
  /\ UNCHANGED <<shared, call, printFunc, timeText, s, ret, obs, hist, lv, stack, outer>>

\* app = App.Load(): the second load of the name
LogPrintAppLoad(t) ==
  /\ At(t, "lp_app2")
  /\ app' = [app EXCEPT ![t] = App]
  /\ pc' = [pc EXCEPT ![t] = "lp_print"]
  /\ UNCHANGED <<shared, call, printFunc, timeText, s, ret, obs, hist, lv, stack, outer>>

\* the line with the application name as it is stored
FormatNoUpper(tt, ap, level, msg, loc) ==
  TrimSuffix(
    Sprintf(formatString,
            <<tt, ap, Colorizer(level, LvlStr(level)), msg, loc>>),
    <<"\n">>)

\* s := fmt.Sprintf(formatString, timeText, strings.ToUpper(app),
\* LevelSpecs[level].Colorizer(LvlStr[level]), printFunc(), loc), then
\* s = strings.TrimSuffix(s, "\n")
Format(tt, ap, level, msg, loc) ==
  TrimSuffix(
    Sprintf(formatString,
            <<tt, ToUpper(ap), Colorizer(level, LvlStr(level)), msg, loc>>),
    <<"\n">>)

\* the call the producers that call the logger make: log.E.Ln("hi")
ProducerSite == "30"
ProducerCall ==
  [op |-> "Ln", field |-> "E", level |-> GetLogger["E"]["Ln"].level,
   format |-> <<>>, a |-> <<Str(<<"h", "i">>)>>, site |-> ProducerSite]

\* printFunc() runs a producer that calls the logger: the emit in progress
\* waits, holding writerMx, for the call its producer makes, which starts
\* with writerMx.Lock() in the same goroutine
LogPrintProducerCalls(t) ==
  /\ At(t, "lp_print")
  /\ Logs(printFunc[t])
  /\ outer' = [outer EXCEPT ![t] =
                 <<[call |-> call[t], printFunc |-> printFunc[t],
                    timeText |-> timeText[t], app |-> app[t],
                    obs |-> [obs[t] EXCEPT !.produced = obs[t].produced + 1],
                    stack |-> stack[t]]>> \o outer[t]]
  /\ call' = [call EXCEPT ![t] = ProducerCall]
  /\ printFunc' = [printFunc EXCEPT ![t] = joinStrings(<<" ">>, ProducerCall.a)]
  /\ obs' = [obs EXCEPT ![t] = [NoObs EXCEPT !.at = Len(writer),
                                           !.fresh = TRUE]]
  /\ stack' = [stack EXCEPT ![t] =
                 <<LogPrintFrame, ClosureFrame("Ln"),
                   Frame("main.producer", "main.go", ProducerSite)>>
                 \o stack[t]]
  /\ pc' = [pc EXCEPT ![t] = "lp_lock"]
  /\ UNCHANGED <<shared, timeText, app, s, ret, hist, lv>>

\* printFunc() runs a producer that panics: the panic leaves logPrint's closure
\* through its deferred call
LogPrintProducerPanics(t) ==
  /\ At(t, "lp_print")
  /\ Panics(printFunc[t])
  /\ obs' = [obs EXCEPT ![t].produced = obs[t].produced + 1]
  /\ pc' = [pc EXCEPT ![t] = "lp_panic"]
  /\ UNCHANGED <<shared, call, locals, hist, lv, stack, outer>>

\* a panic that runs no deferred call on its way out of logPrint's closure
LogPrintPanicNoDefer(t) ==
  /\ At(t, "lp_panic")
  /\ pc' = [pc EXCEPT ![t] = "panicking"]
  /\ UNCHANGED <<shared, call, locals, obs, hist, lv, stack, outer>>

\* the deferred writerMx.Unlock() runs while the panic unwinds
LogPrintPanicUnlock(t) ==
  /\ At(t, "lp_panic")
  /\ MutexUnlock(t)
  /\ pc' = [pc EXCEPT ![t] = "panicking"]
  /\ UNCHANGED <<logLevel, timeStampFormat, App, writer, call, locals, obs,
                 hist, lv, stack, outer>>

\* loc = GetLoc(3), printFunc() invoked (or returned, when it had called the
\* logger), the line assembled
LogPrintFormat(t) ==
  /\ pc[t] \in {"lp_print", "lp_resume"}
  /\ Alive
  /\ pc[t] = "lp_print" => ~Logs(printFunc[t]) /\ ~Panics(printFunc[t])
  /\ s' = [s EXCEPT ![t] =
             Format(timeText[t], app[t], call[t].level,
                    PrintFunc(printFunc[t]),
                    GetLoc(3, <<GetLocFrame>> \o stack[t]))]
  /\ obs' = [obs EXCEPT ![t].produced =
                IF pc[t] = "lp_print" THEN obs[t].produced + 1
                ELSE obs[t].produced]
  /\ pc' = [pc EXCEPT ![t] = "lp_write"]
  /\ UNCHANGED <<shared, call, printFunc, timeText, app, ret, hist, lv, stack, outer>>

\* fmt.Fprintln(writer, s): the sink takes the line
LogPrintWrite(t) ==
  /\ At(t, "lp_write")
  /\ writer' = Append(writer, s[t])
  /\ obs' = [obs EXCEPT ![t].wrote = obs[t].wrote + 1]
  /\ pc' = [pc EXCEPT ![t] = "lp_nl"]
  /\ UNCHANGED <<logLevel, timeStampFormat, App, writerMx, call, locals,
                 hist, lv, stack, outer>>

\* fmt.Fprintln(writer, s): the sink takes the newline that ends the line
LogPrintWriteNl(t) ==
  /\ At(t, "lp_nl")
  /\ writer' = Append(writer, <<"\n">>)
  /\ pc' = [pc EXCEPT ![t] = "lp_unlock"]
  /\ UNCHANGED <<logLevel, timeStampFormat, App, writerMx, call, locals, obs,
                 hist, lv, stack, outer>>

\* Chk that reports the error only when its entry was written
LogPrintUnlockGated(t) ==
  /\ At(t, "lp_unlock")
  /\ MutexUnlock(t)
  /\ ret' = [ret EXCEPT ![t].is = (call[t].op = "Chk" /\ obs[t].wrote = 1)]
  /\ pc' = [pc EXCEPT ![t] = "ret"]
  /\ UNCHANGED <<logLevel, timeStampFormat, App, writer, call, printFunc,
                 timeText, app, s, obs, hist, lv, stack, outer>>

\* the deferred writerMx.Unlock(); Chk sets is = true after logPrint returns
LogPrintUnlock(t) ==
  /\ At(t, "lp_unlock")
  /\ MutexUnlock(t)
  /\ ret' = [ret EXCEPT ![t].is = (call[t].op = "Chk")]
  /\ pc' = [pc EXCEPT ![t] = "ret"]
  /\ UNCHANGED <<logLevel, timeStampFormat, App, writer, call, printFunc,
                 timeText, app, s, obs, hist, lv, stack, outer>>

\* ------------------------------------------------- SetLogLevel, GetLogLevel
\* SetLogLevel that does not take the mutex before it writes
SetLogLevelNoLock(t) ==
  /\ At(t, "sl_lock")
  /\ pc' = [pc EXCEPT ![t] = "sl_set"]
  /\ UNCHANGED <<shared, call, locals, obs, hist, lv, stack, outer>>

SetLogLevelCall(l) ==
  [op |-> "SetLogLevel", field |-> "", level |-> l, format |-> <<>>,
   a |-> <<>>, site |-> DirectSite]
GetLogLevelCall ==
  [op |-> "GetLogLevel", field |-> "", level |-> Off, format |-> <<>>,
   a |-> <<>>, site |-> DirectSite]
SetTimeStampFormatCall(layout) ==
  [op |-> "SetTimeStampFormat", field |-> "", level |-> Off,
   format |-> <<layout>>, a |-> <<>>, site |-> DirectSite]
AppStoreCall(name) ==
  [op |-> "App.Store", field |-> "", level |-> Off, format |-> <<>>,
   a |-> <<Str(name)>>, site |-> DirectSite]

CallSetLogLevel(t, levels) ==
  \E l \in levels : Enter(t, SetLogLevelCall(l), NoFunc, "sl_lock")

\* writerMx.Lock() of SetLogLevel
SetLogLevelLock(t) ==
  /\ At(t, "sl_lock")
  /\ MutexLock(t)
  /\ pc' = [pc EXCEPT ![t] = "sl_set"]
  /\ UNCHANGED <<logLevel, timeStampFormat, App, writer, call, locals, obs,
                 hist, lv, stack, outer>>

\* SetLogLevel that leaves the threshold as it is
SetLogLevelSkip(t) ==
  /\ At(t, "sl_set")
  /\ pc' = [pc EXCEPT ![t] = "sl_unlock"]
  /\ UNCHANGED <<shared, call, locals, obs, hist, lv, stack, outer>>

\* logLevel = l
SetLogLevelSet(t) ==
  /\ At(t, "sl_set")
  /\ logLevel' = call[t].level
  /\ pc' = [pc EXCEPT ![t] = "sl_unlock"]
  /\ UNCHANGED <<timeStampFormat, App, writerMx, writer, call, locals, obs,
                 hist, lv, stack, outer>>

\* the deferred writerMx.Unlock() of SetLogLevel
SetLogLevelUnlock(t) ==
  /\ At(t, "sl_unlock")
  /\ MutexUnlock(t)
  /\ pc' = [pc EXCEPT ![t] = "ret"]
  /\ UNCHANGED <<logLevel, timeStampFormat, App, writer, call, locals, obs,
                 hist, lv, stack, outer>>

CallGetLogLevel(t) == Enter(t, GetLogLevelCall, NoFunc, "gl_lock")

\* writerMx.Lock() of GetLogLevel
GetLogLevelLock(t) ==
  /\ At(t, "gl_lock")
  /\ MutexLock(t)
  /\ pc' = [pc EXCEPT ![t] = "gl_get"]
  /\ UNCHANGED <<logLevel, timeStampFormat, App, writer, call, locals, obs,
                 hist, lv, stack, outer>>

\* l = logLevel
GetLogLevelGet(t) ==
  /\ At(t, "gl_get")
  /\ ret' = [ret EXCEPT ![t].l = logLevel]
  /\ pc' = [pc EXCEPT ![t] = "gl_unlock"]
  /\ UNCHANGED <<shared, call, printFunc, timeText, app, s, obs, hist, lv, stack, outer>>

\* the deferred writerMx.Unlock() of GetLogLevel
GetLogLevelUnlock(t) ==
  /\ At(t, "gl_unlock")
  /\ MutexUnlock(t)
  /\ pc' = [pc EXCEPT ![t] = "ret"]
  /\ UNCHANGED <<logLevel, timeStampFormat, App, writer, call, locals, obs,
                 hist, lv, stack, outer>>

\* -------------------------------------------- SetTimeStampFormat, App.Store
CallSetTimeStampFormat(t, layouts) ==
  \E layout \in layouts :
    Enter(t, SetTimeStampFormatCall(layout), NoFunc, "tf_first")

\* timeStampFormat = format, without the mutex: the store of either word of
\* the string header
SetTimeStampFormatFirst(t) ==
  /\ At(t, "tf_first")
  /\ \E w \in {"ptr", "len"} :
       /\ timeStampFormat' = [timeStampFormat EXCEPT ![w] = call[t].format[1]]
       /\ pc' = [pc EXCEPT ![t] = IF w = "ptr" THEN "tf_len" ELSE "tf_ptr"]
  /\ UNCHANGED <<logLevel, App, writerMx, writer, call, locals, obs, hist,
                 lv, stack, outer>>

\* timeStampFormat = format: the store of the other word
SetTimeStampFormatSecond(t) ==
  /\ pc[t] \in {"tf_len", "tf_ptr"}
  /\ Alive
  /\ timeStampFormat' =
       [timeStampFormat EXCEPT ![IF pc[t] = "tf_len" THEN "len" ELSE "ptr"] =
          call[t].format[1]]
  /\ pc' = [pc EXCEPT ![t] = "ret"]
  /\ UNCHANGED <<logLevel, App, writerMx, writer, call, locals, obs, hist,
                 lv, stack, outer>>

CallAppStore(t, names) ==
  \E name \in names : Enter(t, AppStoreCall(name), NoFunc, "as_store")

\* App.Store(name): one atomic store
AppStore(t) ==
  /\ At(t, "as_store")
  /\ App' = call[t].a[1].text
  /\ lastStored' = call[t].a[1].text
  /\ obs' = [u \in Threads |-> [obs[u] EXCEPT !.fresh = FALSE]]
  /\ pc' = [pc EXCEPT ![t] = "ret"]
  /\ UNCHANGED <<logLevel, timeStampFormat, writerMx, writer, call, locals,
                 opsLeft, nPassed, lastSet, lastAlone, lv, stack, outer>>

\* the call returns: to the calling code, or to the producer that made it,
\* whose emit then goes on
Return(t) ==
  /\ At(t, "ret")
  /\ s' = [s EXCEPT ![t] = <<>>]
  /\ ret' = [ret EXCEPT ![t] = NoRet]
  /\ IF outer[t] = <<>>
     THEN /\ pc' = [pc EXCEPT ![t] = "idle"]
          /\ lastSet' = IF call[t].op = "SetLogLevel" THEN call[t].level
                        ELSE lastSet
          /\ lastAlone' = IF call[t].op = "SetLogLevel" THEN obs[t].alone
                          ELSE lastAlone
          /\ call' = [call EXCEPT ![t] = NoCall]
          /\ printFunc' = [printFunc EXCEPT ![t] = NoFunc]
          /\ timeText' = [timeText EXCEPT ![t] = <<>>]
          /\ app' = [app EXCEPT ![t] = <<>>]
          /\ obs' = [obs EXCEPT ![t] = NoObs]
          /\ stack' = [stack EXCEPT ![t] = <<>>]
          /\ UNCHANGED outer
     ELSE /\ pc' = [pc EXCEPT ![t] = "lp_resume"]
          /\ call' = [call EXCEPT ![t] = Head(outer[t]).call]
          /\ printFunc' = [printFunc EXCEPT ![t] = Head(outer[t]).printFunc]
          /\ timeText' = [timeText EXCEPT ![t] = Head(outer[t]).timeText]
          /\ app' = [app EXCEPT ![t] = Head(outer[t]).app]
          /\ obs' = [obs EXCEPT ![t] = Head(outer[t]).obs]
          /\ stack' = [stack EXCEPT ![t] = Head(outer[t]).stack]
          /\ outer' = [outer EXCEPT ![t] = Tail(outer[t])]
          /\ UNCHANGED <<lastSet, lastAlone>>
  /\ UNCHANGED <<shared, opsLeft, nPassed, lastStored, lv>>

\* the calling code recovers from the panic (a deferred recover()) and its
\* goroutine goes on
Recover(t) ==
  /\ At(t, "panicking")
  /\ pc' = [pc EXCEPT ![t] = "idle"]
  /\ call' = [call EXCEPT ![t] = NoCall]
  /\ printFunc' = [printFunc EXCEPT ![t] = NoFunc]
  /\ timeText' = [timeText EXCEPT ![t] = <<>>]
  /\ app' = [app EXCEPT ![t] = <<>>]
  /\ s' = [s EXCEPT ![t] = <<>>]
  /\ ret' = [ret EXCEPT ![t] = NoRet]
  /\ obs' = [obs EXCEPT ![t] = NoObs]
  /\ stack' = [stack EXCEPT ![t] = <<>>]
  /\ outer' = [outer EXCEPT ![t] = <<>>]
  /\ UNCHANGED <<shared, hist, lv>>

\* nobody recovers from the panic: the process ends
Crash(t) ==
  /\ At(t, "panicking")
  /\ pc' = [pc EXCEPT ![t] = "panicked"]
  /\ UNCHANGED <<shared, call, locals, obs, hist, lv, stack, outer>>

\* ------------------------------------------------------------------ inputs
Hi == <<"h", "i">>
HiNl == <<"h", "i", "\n">>
Testing == <<"t", "e", "s", "t", "i", "n", "g">>
Bad == <<"b", "a", "d">>

\* what the sequential histories pass
SeqLnArgs == {<<>>, <<Str(Hi)>>, <<Str(Hi), Str(LvlStr(Info))>>, <<Str(HiNl)>>}
SeqFormats == {<<"x", "=", "%s">>}
SeqFArgs == {<<Str(Hi)>>}
SeqSArgs == {<<>>, <<Str(<<" ", "h", "d", "r", " ">>), Obj(<<"{", "1", "}">>)>>,
             <<Obj(<<"{", "1", "}">>)>>}
SeqClosures == {Func(Hi)}
SeqErrs == {Nil, Err(Bad)}
SeqNames == {Testing}
SeqLayouts == {DateTimeLayout}

\* the calls of one goroutine, in sequence
Next ==
  \/ CallLn(Main, FacadeFields, SeqLnArgs)
  \/ CallF(Main, FacadeFields, SeqFormats, SeqFArgs)
  \/ CallS(Main, FacadeFields, SeqSArgs)
  \/ CallC(Main, FacadeFields, SeqClosures)
  \/ CallChk(Main, FacadeFields, SeqErrs)
  \/ CallChkStored(Main, {"E"}, {Err(Bad)})
  \/ ChkNil(Main)
  \/ LogPrintLock(Main)
  \/ LogPrintGate(Main)
  \/ LogPrintTime(Main)
  \/ LogPrintAppLen(Main)
  \/ LogPrintAppLoad(Main)
  \/ LogPrintFormat(Main)
  \/ LogPrintWrite(Main)
  \/ LogPrintWriteNl(Main)
  \/ LogPrintUnlock(Main)
  \/ CallSetLogLevel(Main, Levels)
  \/ SetLogLevelLock(Main)
  \/ SetLogLevelSet(Main)
  \/ SetLogLevelUnlock(Main)
  \/ CallGetLogLevel(Main)
  \/ GetLogLevelLock(Main)
  \/ GetLogLevelGet(Main)
  \/ GetLogLevelUnlock(Main)
  \/ CallSetTimeStampFormat(Main, SeqLayouts)
  \/ SetTimeStampFormatFirst(Main)
  \/ SetTimeStampFormatSecond(Main)
  \/ CallAppStore(Main, SeqNames)
  \/ AppStore(Main)
  \/ Return(Main)
  \/ Recover(Main)
  \/ Crash(Main)

Spec == Init /\ [][Next]_vars

\* what the goroutines of the concurrent histories pass
ConcFields == {"E", "D"}
\* every message names its goroutine and its number: all are distinct
ConcLnArgs(t) == {<<Str(<<"g", ToString(t), "#", ToString(opsLeft)>>)>>}
ConcLevels == {Error, Trace}
ConcNames == {Testing, <<"a", "p">>}
ConcLayouts == {DateTimeLayout}

\* any goroutine calls at any time
NextConc ==
  \E t \in Threads :
    \/ CallLn(t, ConcFields, ConcLnArgs(t))
    \/ LogPrintLock(t)
    \/ LogPrintGate(t)
    \/ LogPrintTime(t)
    \/ LogPrintAppLen(t)
    \/ LogPrintAppLoad(t)
    \/ LogPrintFormat(t)
    \/ LogPrintWrite(t)
    \/ LogPrintWriteNl(t)
    \/ LogPrintUnlock(t)
    \/ CallSetLogLevel(t, ConcLevels)
    \/ SetLogLevelLock(t)
    \/ SetLogLevelSet(t)
    \/ SetLogLevelUnlock(t)
    \/ CallGetLogLevel(t)
    \/ GetLogLevelLock(t)
    \/ GetLogLevelGet(t)
    \/ GetLogLevelUnlock(t)
    \/ CallSetTimeStampFormat(t, ConcLayouts)
    \/ SetTimeStampFormatFirst(t)
    \/ SetTimeStampFormatSecond(t)
    \/ CallAppStore(t, ConcNames)
    \/ AppStore(t)
    \/ Return(t)

\* the goroutines start with the default layout, or after the main goroutine
\* has set another one
InitConc ==
  /\ \E layout \in {DefaultLayout, DateTimeLayout} : InitWith(layout)
  /\ opsLeft = MaxConcOps
  /\ lv = NoLv

SpecConc == InitConc /\ [][NextConc]_vars

\* one goroutine that sets and reads the threshold and prints lines
NextThreshold ==
  \/ CallLn(Main, FacadeFields, {<<Str(Hi)>>})
  \/ LogPrintLock(Main)
  \/ LogPrintGate(Main)
  \/ LogPrintTime(Main)
  \/ LogPrintAppLen(Main)
  \/ LogPrintFormat(Main)
  \/ LogPrintWrite(Main)
  \/ LogPrintWriteNl(Main)
  \/ LogPrintUnlock(Main)
  \/ CallSetLogLevel(Main, Levels)
  \/ SetLogLevelLock(Main)
  \/ SetLogLevelSet(Main)
  \/ SetLogLevelUnlock(Main)
  \/ CallGetLogLevel(Main)
  \/ GetLogLevelLock(Main)
  \/ GetLogLevelGet(Main)
  \/ GetLogLevelUnlock(Main)
  \/ Return(Main)

InitThreshold == InitProgram /\ opsLeft = MaxLevelOps /\ lv = NoLv

SpecThreshold == InitThreshold /\ [][NextThreshold]_vars

\* ------------------------------------------- producers that call the logger
\* operations started in a history with producers that call the logger
MaxReentryOps == 2

ReentryClosures == {Func(Hi), FuncLogs(Hi)}
ReentryLnArgs == {<<Str(Hi)>>, <<StringerLogs(Hi)>>}

\* a goroutine starts a call
ReentryCall(t) ==
  \/ CallC(t, {"E", "D"}, ReentryClosures)
  \/ CallLn(t, {"E"}, ReentryLnArgs)
  \/ CallSetLogLevel(t, {Error})
  \/ CallGetLogLevel(t)

\* a goroutine takes the next step of the call it is in
ReentryStep(t) ==
  \/ LogPrintLock(t)
  \/ LogPrintGate(t)
  \/ LogPrintTime(t)
  \/ LogPrintAppLen(t)
  \/ LogPrintProducerCalls(t)
  \/ LogPrintFormat(t)
  \/ LogPrintWrite(t)
  \/ LogPrintWriteNl(t)
  \/ LogPrintUnlock(t)
  \/ SetLogLevelLock(t)
  \/ SetLogLevelSet(t)
  \/ SetLogLevelUnlock(t)
  \/ GetLogLevelLock(t)
  \/ GetLogLevelGet(t)
  \/ GetLogLevelUnlock(t)
  \/ Return(t)

NextReentry == \E t \in Threads : ReentryCall(t) \/ ReentryStep(t)

InitReentry == InitProgram /\ opsLeft = MaxReentryOps /\ lv = NoLv

\* the scheduler runs every goroutine that can take a step, the sink takes
\* every write, and a goroutine waiting for the mutex gets it once it stays
\* free
SpecReentry ==
  /\ InitReentry
  /\ [][NextReentry]_vars
  /\ \A t \in Threads : WF_vars(ReentryStep(t))

\* --------------------------------------------------- calls that wait for
\* the mutex while another goroutine writes to the sink
\* operations started in such a history
MaxBlockOps == 2

\* any goroutine calls a line printer, the error check, SetLogLevel or
\* GetLogLevel at any time; a goroutine that does not take its next step is
\* a goroutine that is held up (a sink write that does not return)
NextBlock ==
  \E t \in Threads :
    \/ CallLn(t, {"E", "D"}, {<<Str(Hi)>>})
    \/ CallChk(t, {"E"}, SeqErrs)
    \/ ChkNil(t)
    \/ LogPrintLock(t)
    \/ LogPrintGate(t)
    \/ LogPrintTime(t)
    \/ LogPrintAppLen(t)
    \/ LogPrintFormat(t)
    \/ LogPrintWrite(t)
    \/ LogPrintWriteNl(t)
    \/ LogPrintUnlock(t)
    \/ CallSetLogLevel(t, {Trace})
    \/ SetLogLevelLock(t)
    \/ SetLogLevelSet(t)
    \/ SetLogLevelUnlock(t)
    \/ CallGetLogLevel(t)
    \/ GetLogLevelLock(t)
    \/ GetLogLevelGet(t)
    \/ GetLogLevelUnlock(t)
    \/ Return(t)

InitBlock == InitProgram /\ opsLeft = MaxBlockOps /\ lv = NoLv

SpecBlock == InitBlock /\ [][NextBlock]_vars

\* ------------------------------------------------- producers that panic
\* operations started in a history with producers that panic
MaxPanicOps == 2

PanicClosures == {Func(Hi), FuncPanics}

\* any goroutine calls the closure printer, SetLogLevel or GetLogLevel at any
\* time; a panic of the producer is recovered by the calling code or ends
\* the process
NextPanic ==
  \E t \in Threads :
    \/ CallC(t, {"E", "D"}, PanicClosures)
    \/ LogPrintLock(t)
    \/ LogPrintGate(t)
    \/ LogPrintTime(t)
    \/ LogPrintAppLen(t)
    \/ LogPrintProducerPanics(t)
    \/ LogPrintPanicUnlock(t)
    \/ LogPrintFormat(t)
    \/ LogPrintWrite(t)
    \/ LogPrintWriteNl(t)
    \/ LogPrintUnlock(t)
    \/ CallSetLogLevel(t, {Error})
    \/ SetLogLevelLock(t)
    \/ SetLogLevelSet(t)
    \/ SetLogLevelUnlock(t)
    \/ CallGetLogLevel(t)
    \/ GetLogLevelLock(t)
    \/ GetLogLevelGet(t)
    \/ GetLogLevelUnlock(t)
    \/ Return(t)
    \/ Recover(t)
    \/ Crash(t)

InitPanic == InitProgram /\ opsLeft = MaxPanicOps /\ lv = NoLv

SpecPanic == InitPanic /\ [][NextPanic]_vars

\* ------------------------------------- threshold changes between emits
\* operations started in a history of threshold changes and emits
MaxAtomicOps == 3

\* any goroutine calls a line printer or SetLogLevel at any time
NextAtomic ==
  \E t \in Threads :
    \/ CallLn(t, {"E", "D"}, {<<Str(Hi)>>})
    \/ LogPrintLock(t)
    \/ LogPrintGate(t)
    \/ LogPrintTime(t)
    \/ LogPrintAppLen(t)
    \/ LogPrintFormat(t)
    \/ LogPrintWrite(t)
    \/ LogPrintWriteNl(t)
    \/ LogPrintUnlock(t)
    \/ CallSetLogLevel(t, {Error, Trace})
    \/ SetLogLevelLock(t)
    \/ SetLogLevelSet(t)
    \/ SetLogLevelUnlock(t)
    \/ Return(t)

InitAtomic == InitProgram /\ opsLeft = MaxAtomicOps /\ lv = NoLv

SpecAtomic == InitAtomic /\ [][NextAtomic]_vars

\* ------------------------------------------------ the level-name functions
\* names that are no key of lvlStrs, and one that is
LevelStrings ==
  { <<"O", "F", "F">>, <<"I", "n", "f", "o">>, <<"w", "a", "r", "n", " ">>,
    <<>>, <<"b", "o", "g", "u", "s">>, <<"i", "n", "f", "o">> }

InitLevels ==
  /\ InitProgram
  /\ opsLeft = 0
  /\ \E ll \in Levels \cup {Trace + 1}, def \in Levels, str \in LevelStrings :
       lv = [phase |-> "in", ll |-> ll, def |-> def, str |-> str,
             name |-> <<>>, back |-> Off, other |-> Off]

\* name := GetLevelName(ll)
ApplyGetLevelName ==
  /\ lv.phase = "in"
  /\ lv' = [lv EXCEPT !.phase = "named", !.name = GetLevelName(lv.ll)]
  /\ UNCHANGED <<shared, pc, call, locals, obs, hist, stack, outer>>

\* GetLevelByString(name, def) and GetLevelByString(str, def)
ApplyGetLevelByString ==
  /\ lv.phase = "named"
  /\ lv' = [lv EXCEPT !.phase = "done",
                      !.back = GetLevelByString(lv.name, lv.def),
                      !.other = GetLevelByString(lv.str, lv.def)]
  /\ UNCHANGED <<shared, pc, call, locals, obs, hist, stack, outer>>

NextLevels == ApplyGetLevelName \/ ApplyGetLevelByString

SpecLevels == InitLevels /\ [][NextLevels]_vars

\* ------------------------------------------------------------ the claims
\* the level each facade field is named for
FieldLevel(field) ==
  CASE field = "F" -> Fatal [] field = "E" -> Error [] field = "W" -> Warn
    [] field = "I" -> Info [] field = "D" -> Debug [] field = "T" -> Trace

\* sub occurs in text as a run of consecutive tokens
Contains(text, sub) ==
  \E i \in 0..(Len(text) - Len(sub)) : SubSeq(text, i + 1, i + Len(sub)) = sub

StartsWith(text, prefix) ==
  Len(text) >= Len(prefix) /\ SubSeq(text, 1, Len(prefix)) = prefix

RECURSIVE SpaceFields(_)
\* the fields of a line that single spaces separate
SpaceFields(text) ==
  IF \E i \in 1..Len(text) : text[i] = " "
  THEN LET i == CHOOSE k \in 1..Len(text) :
                  text[k] = " " /\ \A j \in 1..(k - 1) : text[j] # " "
       IN <<SubSeq(text, 1, i - 1)>>
            \o SpaceFields(SubSeq(text, i + 1, Len(text)))
  ELSE <<text>>

RECURSIVE Words(_)
\* the values of a call, each in its text form, single spaces between them
Words(a) ==
  IF a = <<>> THEN <<>>
  ELSE IF Len(a) = 1 THEN a[1].text
       ELSE a[1].text \o <<" ">> \o Words(Tail(a))

\* the emitted line format: five fields, single spaces between them
Line(tt, name, tag, msg, loc) ==
  tt \o <<" ">> \o name \o <<" ">> \o tag \o <<" ">> \o msg \o <<" ">> \o loc

\* goroutine t has returned from a printer primitive that went through the gate
Gated(t) == pc[t] = "ret" /\ call[t].op \in Prims /\ obs[t].T # -1

\* the call of t, now returning, put exactly one entry into the sink
WroteOne(t) ==
  /\ obs[t].wrote = 1
  /\ Len(writer) = obs[t].at + 2
  /\ writer[obs[t].at + 1] = s[t]
  /\ writer[obs[t].at + 2] = <<"\n">>

\* the call of t, now returning, put nothing into the sink
WroteNone(t) == obs[t].wrote = 0 /\ Len(writer) = obs[t].at

\* C1: a call of any primitive of a bundle bound to level L, which finds the
\* threshold T when it holds the lock, writes one entry when L <= T and
\* nothing when L > T.
C1_EmitIffLevelLeThreshold ==
  \A t \in Threads :
    Gated(t) =>
      /\ call[t].level \in Levels /\ obs[t].T \in Levels
      /\ call[t].level <= obs[t].T => WroteOne(t)
      /\ call[t].level > obs[t].T => WroteNone(t)

\* a Warn entry passes a threshold of Warn, through the dump printer
C1_Witness ==
  /\ Gated(Main) /\ call[Main].op = "S"
  /\ call[Main].level = Warn /\ obs[Main].T = Warn
  /\ WroteOne(Main)

\* C2: C and F invoke the message producer (the closure, the template
\* substitution) not at all when the gate rejects the entry and exactly once
\* when it passes.
C2_ProducerInvokedOnlyWhenPassing ==
  \A t \in Threads :
    (Gated(t) /\ call[t].op \in {"C", "F"}) =>
      obs[t].produced = (IF call[t].level > obs[t].T THEN 0 ELSE 1)

\* a rejected C call has returned with its closure never invoked
C2_Witness ==
  /\ Gated(Main) /\ call[Main].op = "C"
  /\ call[Main].level = Debug /\ obs[Main].T = Info
  /\ obs[Main].produced = 0

\* the message of the entry Chk writes for the error e
CheckMessage(e) == <<"CHECK:", " ">> \o e.text

\* C3 as claimed: for every threshold, Chk with a present error returns true
\* and emits exactly one line holding CHECK: and the description; with nil it
\* returns false and emits nothing.
C3_ChkEmitsAtEveryThreshold ==
  \A t \in Threads :
    (pc[t] = "ret" /\ call[t].op = "Chk") =>
      IF call[t].a[1] # Nil
      THEN ret[t].is /\ WroteOne(t)
           /\ Contains(s[t], <<"CHECK:">>) /\ Contains(s[t], call[t].a[1].text)
      ELSE ~ret[t].is /\ WroteNone(t)

\* C3, amended: Chk with a present error returns true at every threshold, and
\* emits exactly one entry, whose message is CHECK: and the description, when
\* its level is <= the threshold, nothing when it is above; with nil it
\* returns false and emits nothing.
C3_ChkEmitsWhenGatePasses ==
  \A t \in Threads :
    (pc[t] = "ret" /\ call[t].op = "Chk") =>
      IF call[t].a[1] # Nil
      THEN /\ ret[t].is
           /\ call[t].level <= obs[t].T =>
                 WroteOne(t) /\ Contains(s[t], CheckMessage(call[t].a[1]))
           /\ call[t].level > obs[t].T => WroteNone(t)
      ELSE ~ret[t].is /\ WroteNone(t)

\* Chk of a present error at a level above the threshold: true, and no entry
C3_Witness ==
  /\ pc[Main] = "ret" /\ call[Main].op = "Chk" /\ call[Main].a[1] = Err(Bad)
  /\ call[Main].level = Info /\ obs[Main].T = Error
  /\ ret[Main].is /\ WroteNone(Main)

\* goroutine t is inside logPrint
InLogPrint(t) ==
  pc[t] \in {"lp_lock", "lp_gate", "lp_time", "lp_app", "lp_app2", "lp_print",
             "lp_write", "lp_nl", "lp_unlock"}

\* chunk i of the sink is a line, directly followed by the newline that ends it
CompleteEntry(i) ==
  /\ writer[i] # <<"\n">>
  /\ i + 1 <= Len(writer) /\ writer[i + 1] = <<"\n">>

\* C4: concurrent emits leave complete entries only. The chunks of the sink
\* alternate line, newline (the last line may still wait for its newline while
\* its writer holds the lock); no two entries are the same (the messages are
\* all distinct); and once no goroutine is inside logPrint the sink holds
\* exactly one complete entry per message that passed the gate.
C4_ConcurrentEntriesComplete ==
  /\ \A i \in 1..Len(writer) :
       IF i % 2 = 1
       THEN \/ CompleteEntry(i)
            \/ i = Len(writer) /\ writer[i] # <<"\n">>
                 /\ \E t \in Threads : pc[t] = "lp_nl" /\ writerMx = t
       ELSE writer[i] = <<"\n">>
  /\ \A i, j \in 1..Len(writer) :
       (i < j /\ i % 2 = 1 /\ j % 2 = 1) => writer[i] # writer[j]
  /\ (\A t \in Threads : ~InLogPrint(t)) => Len(writer) = 2 * nPassed

\* two goroutines have each emitted, nobody is inside logPrint any more
C4_Witness ==
  /\ \A t \in Threads : ~InLogPrint(t)
  /\ nPassed = 2 /\ Len(writer) = 4
  /\ \E i, j \in {1, 3} : /\ i # j
                          /\ Contains(writer[i], <<"g", "1", "#">>)
                          /\ Contains(writer[j], <<"g", "2", "#">>)
                          /\ CompleteEntry(i) /\ CompleteEntry(j)

\* C5 as claimed: the threshold and the timestamp format are read and written
\* only by the goroutine that holds the lock, and an emit formats its time
\* with a layout that a completed setter wrote, never with a torn one.
C5_ConfigurationSynchronised ==
  \A t \in Threads :
    /\ pc[t] \in {"lp_gate", "lp_time", "sl_set", "gl_get", "tf_first",
                   "tf_len", "tf_ptr"} => writerMx = t
    /\ timeText[t] # <<"torn-layout">>

\* the text of a message that is one line followed by newlines only
SingleLineEndingInNewline(msg) ==
  /\ msg # <<>> /\ msg[Len(msg)] = "\n"
  /\ \A i, j \in 1..Len(msg) : (i < j /\ msg[i] = "\n") => msg[j] = "\n"

\* C6 as claimed: the entry written for a message that ends in newlines holds
\* no newline; the only newline the sink gets for it is the terminator.
C6_TrailingNewlineStripped ==
  \A t \in Threads :
    (pc[t] = "ret" /\ call[t].op = "Ln" /\ obs[t].wrote = 1
       /\ SingleLineEndingInNewline(Words(call[t].a))) =>
      /\ \A i \in 1..Len(writer[obs[t].at + 1]) :
           writer[obs[t].at + 1][i] # "\n"

\* C7: at threshold Trace the line printer of each facade field emits exactly
\* one entry per call, with the tag of the level the field is named for and
\* the words passed to it; no facade field is bound to Off or Check.
C7_FacadeFieldsBoundToTheirLevels ==
  /\ \A field \in FacadeFields, prim \in Prims :
       GetLogger[field][prim].level \notin {Off, Check}
  /\ \A t \in Threads :
       (Gated(t) /\ call[t].op = "Ln" /\ obs[t].T = Trace) =>
         /\ WroteOne(t)
         /\ writer[obs[t].at + 1] =
              Line(timeText[t], ToUpper(app[t]),
                   Colorizer(FieldLevel(call[t].field),
                             LvlStr(FieldLevel(call[t].field))),
                   Words(call[t].a), GetLoc(3, CallStack("Ln")))

\* W.Ln("hi", "info ") at threshold Trace has written its one entry
C7_Witness ==
  /\ Gated(Main) /\ call[Main].op = "Ln" /\ call[Main].field = "W"
  /\ call[Main].a = <<Str(Hi), Str(LvlStr(Info))>>
  /\ obs[Main].T = Trace /\ WroteOne(Main)
  /\ Contains(s[Main], LvlStr(Warn) \o <<"ESC[0m", " ", "h", "i", " ">>)

UpperTesting == <<"T", "E", "S", "T", "I", "N", "G">>

\* C8 as claimed: while the stored name is "testing", every entry put into
\* the sink has TESTING as its second space-separated field.
C8_TestingIsSecondSpaceField ==
  \A t \in Threads :
    (pc[t] = "lp_nl" /\ App = Testing) =>
      SpaceFields(writer[Len(writer)])[2] = UpperTesting

\* C8, amended: while the stored name is "testing", every entry of a call
\* that began after that store has TESTING as the field that follows the
\* timestamp and one space (the second of the five formatted fields); and the
\* stored name is what the last App.Store stored: emitting never modifies it.
C8_TestingFollowsTimestamp ==
  /\ App = lastStored
  /\ \A t \in Threads :
       (pc[t] = "lp_nl" /\ App = Testing /\ obs[t].fresh) =>
         StartsWith(writer[Len(writer)],
                    timeText[t] \o <<" ">> \o UpperTesting \o <<" ">>)

\* an entry of a call begun after the store, under a layout with a space in
\* it: TESTING follows the timestamp and is the third space-separated field
C8_Witness ==
  \E t \in Threads :
    /\ pc[t] = "lp_nl" /\ App = Testing /\ obs[t].fresh
    /\ timeText[t] = getTimeText(StringHeader(DateTimeLayout))
    /\ SpaceFields(writer[Len(writer)])[3] = UpperTesting

\* C9: before any SetLogLevel call the threshold is Info, so the Debug and
\* Trace bundles emit nothing and the Fatal, Error, Warn and Info bundles
\* emit; and GetLogLevel returns the argument of the most recently completed
\* SetLogLevel, Info when there was none.
C9_DefaultInfoAndGetReturnsLastSet ==
  /\ (lastSet = -1 /\ \A t \in Threads : call[t].op # "SetLogLevel") =>
       logLevel = Info
  /\ \A t \in Threads :
       /\ (lastSet = -1 /\ Gated(t)) =>
            /\ obs[t].T = Info
            /\ call[t].level \in {Fatal, Error, Warn, Info} => WroteOne(t)
            /\ call[t].level \in {Debug, Trace} => WroteNone(t)
       /\ (pc[t] = "ret" /\ call[t].op = "GetLogLevel") =>
            ret[t].l = (IF lastSet = -1 THEN Info ELSE lastSet)

\* GetLogLevel returns Warn after SetLogLevel(Error) and then SetLogLevel(Warn)
C9_Witness ==
  /\ pc[Main] = "ret" /\ call[Main].op = "GetLogLevel"
  /\ opsLeft = MaxLevelOps - 3
  /\ lastSet = Warn /\ ret[Main].l = Warn

\* the eight lower-case names
LevelNames ==
  { <<"o", "f", "f">>, <<"f", "a", "t", "a", "l">>, <<"e", "r", "r", "o", "r">>,
    <<"c", "h", "e", "c", "k">>, <<"w", "a", "r", "n">>, <<"i", "n", "f", "o">>,
    <<"d", "e", "b", "u", "g">>, <<"t", "r", "a", "c", "e">> }

\* C10: GetLevelByString(GetLevelName(L), D) = L for every defined level L and
\* every default D, and GetLevelByString returns D for every string that is
\* none of the eight lower-case names.
C10_LevelNameRoundTrip ==
  lv.phase = "done" =>
    /\ lv.ll \in Levels => lv.back = lv.ll
    /\ lv.str \notin LevelNames => lv.other = lv.def

\* Warn goes to "warn" and back, and the padded "warn " yields the default
C10_Witness ==
  /\ lv.phase = "done" /\ lv.ll = Warn /\ lv.def = Off
  /\ lv.name = <<"w", "a", "r", "n">> /\ lv.back = Warn
  /\ lv.str = <<"w", "a", "r", "n", " ">> /\ lv.other = Off

\* goroutine t has left a call of a primitive by a panic
Failed(t) == call[t].op \in Prims /\ pc[t] \in {"panicking", "panicked"}

\* C12 as claimed: for every bundle, every threshold and every argument
\* sequence, the empty one included, a call of Ln, F, S, C or Chk returns
\* normally: no call of a primitive ends in a panic, and the process goes on.
C12_PrimitivesNeverFail ==
  \A t \in Threads : ~Failed(t) /\ Alive

\* the dump printer was given a text as its first value
HasHeader(c) == c.op = "S" /\ c.a # <<>> /\ c.a[1].type = "string"

\* C13 as claimed: when the gate rejects the entry (L > T) no message
\* construction has happened at all: the producer was never invoked (no value
\* rendered, nothing dumped, no description obtained) and no work was done on
\* the arguments before the gate.
C13_NoMessageWorkWhenRejected ==
  \A t \in Threads :
    (Gated(t) /\ call[t].level > obs[t].T) =>
      obs[t].produced = 0 /\ obs[t].early = 0

\* C13, amended: when the gate rejects the entry the producer was never
\* invoked (no value rendered, the dump collaborator not called, the error's
\* description not obtained) and no line was assembled; the only work done on
\* the arguments before the gate is the dump printer's header (first value
\* tested for text, trimmed, newline appended, value taken off the sequence).
C13_OnlyDumpHeaderBeforeGate ==
  \A t \in Threads :
    (Gated(t) /\ call[t].level > obs[t].T) =>
      /\ obs[t].produced = 0
      /\ s[t] = <<>>
      /\ obs[t].early = (IF HasHeader(call[t]) THEN 1 ELSE 0)
      /\ HasHeader(call[t]) =>
            /\ printFunc[t].text = TrimSpace(call[t].a[1].text) \o <<"\n">>
            /\ printFunc[t].a = Tail(call[t].a)

\* a rejected dump call with a header: the header is there, nothing was dumped
C13_Witness ==
  /\ Gated(Main) /\ HasHeader(call[Main])
  /\ call[Main].level = Trace /\ obs[Main].T = Info
  /\ obs[Main].early = 1 /\ obs[Main].produced = 0
  /\ printFunc[Main].text = <<"h", "d", "r", "\n">>

\* the message the dump printer is claimed to produce for the values a
DumpMessageClaimed(a) ==
  IF a # <<>> /\ a[1].type = "string"
  THEN TrimRight(a[1].text) \o <<"\n">> \o Sdump(Tail(a))
  ELSE <<"s", "p", "e", "w", ":", "\n">> \o Sdump(a)

\* C14 as claimed: for every argument sequence the dump printer's message is
\* the first value with only its trailing white space removed, a newline and
\* the dump of the remaining values when the first value is text, and
\* "spew:\n" and the dump of all values when it is not.
C14_DumpHeaderTrailingTrimmed ==
  \A t \in Threads :
    (call[t].op = "S" /\ pc[t] = "ret" /\ obs[t].wrote = 1) =>
      s[t] = Format(timeText[t], app[t], call[t].level,
                    DumpMessageClaimed(call[t].a), GetLoc(3, CallStack("S")))

\* text ends with suffix
EndsWith(text, suffix) ==
  /\ Len(text) >= Len(suffix)
  /\ SubSeq(text, Len(text) - Len(suffix) + 1, Len(text)) = suffix

\* the location has been resolved and the line assembled
Located(t) == pc[t] \in {"lp_write", "lp_nl"} /\ call[t].op \in Prims

\* C15: for each of the five primitives, when the location is resolved the
\* stack holds exactly three frames of the package between (and including) the
\* resolver and the calling code: GetLoc, logPrint's closure, the primitive's
\* closure; the frame after them is the caller's, and the entry ends with the
\* caller's file:line, also when the primitive is called through a stored
\* function value.
C15_SkipThreeIsTheCallSite ==
  \A t \in Threads :
    Located(t) =>
      LET st == <<GetLocFrame>> \o stack[t]
      IN /\ Len(st) >= 4
         /\ st[1] = GetLocFrame /\ st[2] = LogPrintFrame
         /\ st[3] = ClosureFrame(call[t].op)
         /\ \A i \in 1..3 : st[i].file = "log.go"
         /\ st[4] = Caller(call[t].site) /\ st[4].file # "log.go"
         /\ EndsWith(s[t], <<" ", "main.go", ":", call[t].site>>)

\* Chk, called through the stored function value, reports the line of that call
C15_Witness ==
  /\ Located(Main) /\ call[Main].op = "Chk"
  /\ call[Main].site = StoredValueSite
  /\ EndsWith(s[Main], <<"main.go", ":", StoredValueSite>>)

\* C19: Chk returns true exactly when the error is present, for every bound
\* level and every threshold: also when the gate rejected the entry, and then
\* with no line written.
C19_ChkResultIgnoresGate ==
  \A t \in Threads :
    (pc[t] = "ret" /\ call[t].op = "Chk") =>
      /\ ret[t].is = (call[t].a[1] # Nil)
      /\ (call[t].a[1] # Nil /\ call[t].level > obs[t].T) => WroteNone(t)

\* T.Chk(err) at threshold Fatal: true, the entry suppressed
C19_Witness ==
  /\ pc[Main] = "ret" /\ call[Main].op = "Chk" /\ call[Main].a[1] # Nil
  /\ call[Main].level = Trace /\ obs[Main].T = Fatal
  /\ ret[Main].is /\ WroteNone(Main)

\* C11 as claimed: under fair scheduling, with sink writes that complete, every
\* call of a primitive, of SetLogLevel or of GetLogLevel eventually returns,
\* whether or not the message producer calls the logger itself.
C11_EveryCallReturns ==
  \A t \in Threads : (pc[t] # "idle") ~> (pc[t] = "idle")

\* goroutine t is inside the sink write of its emit (fmt.Fprintln)
InWrite(t) == pc[t] \in {"lp_write", "lp_nl"}

\* goroutine u is in a call of a primitive, SetLogLevel or GetLogLevel that
\* has not come to its end
InCall(u) ==
  /\ call[u].op \in Prims \cup {"SetLogLevel", "GetLogLevel"}
  /\ pc[u] \notin {"idle", "ret"}

\* goroutine u is at the writerMx.Lock() of its call
AtLock(u) == pc[u] \in {"lp_lock", "sl_lock", "gl_lock"}

TakesLock(u) == InCall(u) /\ ~(call[u].op = "Chk" /\ call[u].a[1] = Nil)

\* the mutex is free and goroutine u, waiting for it, can take it
CanProceed(u) ==
  ENABLED (LogPrintLock(u) \/ SetLogLevelLock(u) \/ GetLogLevelLock(u))

Inside(t) ==
  pc[t] \in {"lp_lock", "lp_gate", "lp_time", "lp_app", "lp_app2", "lp_print",
             "lp_resume", "lp_panic", "lp_write", "lp_nl", "lp_unlock",
             "sl_lock", "sl_set", "sl_unlock", "gl_lock", "gl_get",
             "gl_unlock"}

\* C18: whenever no goroutine is executing inside an emit, SetLogLevel or
\* GetLogLevel the mutex is free, and the mutex is only ever held by a
\* goroutine that is inside one of them, past its Lock: after a suppressed
\* emit, after a write, and after an emit whose producer panicked.
C18_LockFreeOutsideCalls ==
  /\ (\A t \in Threads : ~Inside(t)) => writerMx = 0
  /\ \A t \in Threads : writerMx = t => (Inside(t) /\ ~AtLock(t))

\* the producer of one goroutine has panicked, the panic has left the emit,
\* nobody is inside a call and the mutex is free
C18_Witness ==
  /\ \A t \in Threads : ~Inside(t)
  /\ \E t \in Threads :
       /\ pc[t] = "panicking" /\ Panics(printFunc[t])
       /\ obs[t].produced = 1 /\ obs[t].wrote = 0
  /\ writerMx = 0

\* the step in which goroutine t puts its line into the sink
Writes(t) == pc[t] = "lp_write" /\ pc'[t] = "lp_nl"

\* no call of SetLogLevel is in progress
NoSetInProgress == \A u \in Threads : call[u].op # "SetLogLevel"

\* C17 as claimed: in every interleaving, an entry written after
\* SetLogLevel(T) has returned and before the next SetLogLevel begins has a
\* level <= T, and every entry written has a level <= the threshold that is
\* current while its emit holds the lock, the one its gate read.
C17_NoEntryAboveReturnedThreshold ==
  [][\A t \in Threads :
       Writes(t) =>
         /\ writerMx = t /\ obs[t].T = logLevel /\ call[t].level <= logLevel
         /\ (lastSet # -1 /\ NoSetInProgress) => call[t].level <= lastSet]_vars

\* C17, amended: an entry written after SetLogLevel(T) has returned, no other
\* SetLogLevel call having overlapped that call, and before the next
\* SetLogLevel begins has a level <= T; and every entry written has a level <=
\* the threshold that is current while its emit holds the lock, the one its
\* gate read.
C17_NoEntryAboveThresholdSetAlone ==
  [][\A t \in Threads :
       Writes(t) =>
         /\ writerMx = t /\ obs[t].T = logLevel /\ call[t].level <= logLevel
         /\ (lastSet # -1 /\ lastAlone /\ NoSetInProgress) =>
               (call[t].level <= lastSet /\ logLevel = lastSet)]_vars

\* a Debug line is about to be written after SetLogLevel(Trace) has returned,
\* which itself came after a completed SetLogLevel(Error)
C17_Witness ==
  \E t \in Threads :
    /\ pc[t] = "lp_write" /\ call[t].level = Debug
    /\ lastSet = Trace /\ lastAlone /\ NoSetInProgress
    /\ opsLeft = MaxAtomicOps - 3

====
